---- MODULE Spec2Model ----
(***************************************************************************)
(* Model of the portfolio simulation engine of backtester.py               *)
(* (class Backtester): the day loop of run, the exit pass, candidate       *)
(* collection, the built-in sizing step buying_decisions, _buy, _sell and  *)
(* _summarize_day; and of the position sizers of position_size.py          *)
(* (PositionSize.sort, MaxFirstEncountered, FixedCapitalPerc and           *)
(* PercentageRisk), which the engine of backtester.py does not call and    *)
(* which are therefore called on their own (SpecSizer).                    *)
(*                                                                         *)
(* Units.  Prices are whole currency units (PLN), as in the repository's   *)
(* tests.  Every money amount (cash, transaction values, fees, account     *)
(* value, NAV) is an integer number of 1/100 units (grosz), so that the    *)
(* two-decimal rounding of calculate_fee is exact integer arithmetic.      *)
(* Share counts are integers (the code keeps them as whole-valued floats). *)
(* The code computes in binary floating point; its floor division and its  *)
(* rounding agree with the exact arithmetic used here except when money is *)
(* an exact multiple of price*1.0038 or a fee falls exactly on half a      *)
(* grosz.  Neither occurs in the runs of MaxDays days over Prices and      *)
(* InitCapitals: on all of them the final cash, holdings, ledger and       *)
(* snapshots of the model are those the code computes.                     *)
(*                                                                         *)
(* Input.  The signals mapping is read by run one day at a time and each   *)
(* cell is read at most once per day, so the model draws a day's prices    *)
(* when the day starts and a symbol's exit / entry flags when the code     *)
(* reads them.  When run is called a second time (SpecRerun) the cells     *)
(* read by the first call keep their values.                               *)
(*                                                                         *)
(* Specifications.  Spec: one call of run(), test_days omitted.  SpecDays: *)
(* one call of run(test_days).  SpecOrders: one call of run() on a signals *)
(* mapping that lists its symbols in any order.  SpecRerun: two calls of   *)
(* run() on one engine.  SpecSizer: one call of a sizer.                   *)
(***************************************************************************)
EXTENDS Integers, Sequences, FiniteSets, TLC

\* ------------------------------------------------------------------ bounds
\* days in the day list of a run
MaxDays == 2

Symbols == {"A", "B"}
\* prices a record can carry (whole units)
Prices == {80, 210}
\* init_capital (whole units)
InitCapitals == {212, 500}
\* init_capital of the engines on which test_days or a second call is tried
\* (the capital of the repository's functional tests)
CallerCapitals == {500}
Flags == {0, 1}
\* orders in which the signals mapping lists its symbols
SignalOrders == {<<"A", "B">>}

\* candidates in the list given to a sizer
MaxCands == 2
\* what a call of a sizer is given: symbols, prices (whole units), stop
\* losses, available money and capital (grosz), capital_perc and perc_risk (%)
SizerSymbols == {"c1", "c10", "c2"}
SizerPrices == {50, 100}
StopLosses ==
    {[stop_kind |-> "absent", stop_loss |-> 0], [stop_kind |-> "nan", stop_loss |-> 0]}
    \cup {[stop_kind |-> "number", stop_loss |-> v] : v \in {0, 50, 90}}
NoStopLoss == {[stop_kind |-> "absent", stop_loss |-> 0]}
SizerMoney == {-300, 6000, 10100, 50500}
SizerCapitals == {100000}
CapitalPercs == {10, 100}
RiskPercs == {10}
SortTypes == {"alphabetically", "cheapest", "expensive", "random"}

\* ------------------------------------------------------- program constants
\* fee_perc = 0.0038, written as a number of 1/10000
fee_perc_e4 == 38
\* min_fee = 4 (PLN)
min_fee == 4

VARIABLES
    init_capital,         \* Backtester.init_capital
    signal_keys,          \* iteration order of the signals mapping
    n_days,               \* number of distinct dates in the signals mapping
    test_days,            \* argument of run: <<>> when omitted, else <<n>>
    calls_left,           \* calls of run the caller still makes on this engine
    signals,              \* cells of the signals mapping a later call reads again
    first_result,         \* what the caller got from its first call, if more follow
    sizer_call,           \* a call of decide_what_to_buy: the sizer and its arguments
    sizer_result,         \* what that call returned or raised
    pc,                   \* position inside run
    ds,                   \* index of the current day in the sorted day list
    symbols_in_day,       \* symbols_in_day[ds]: symbols with a record on ds
    close,                \* signals[sym][price_label][ds] for those symbols
    exit_sig,             \* exit flags read so far on ds, by symbol
    entry_sig,            \* entry flags read on ds, by symbol
    owned_list,           \* rest of the list owned_shares iterated by the exit pass
    purchease_candidates, \* candidate list of ds
    symbols_to_buy,       \* fills of ds not yet executed
    owned_shares,         \* _owned_shares, in insertion order
    available_money,      \* _available_money
    trades,               \* _trades
    account_value,        \* _account_value
    net_account_value     \* _net_account_value

vars == <<init_capital, signal_keys, n_days, test_days, calls_left, signals,
          first_result, sizer_call, sizer_result, pc, ds, symbols_in_day, close, exit_sig,
          entry_sig, owned_list, purchease_candidates, symbols_to_buy,
          owned_shares, available_money, trades, account_value,
          net_account_value>>

inputs == <<init_capital, signal_keys, n_days, test_days>>
today == <<ds, symbols_in_day, close>>
portfolio == <<owned_shares, available_money, trades>>
snapshots == <<account_value, net_account_value>>
caller == <<calls_left, first_result>>
sizing == <<sizer_call, sizer_result>>
engine == <<init_capital, signal_keys, n_days, test_days, calls_left, signals,
            first_result, ds, symbols_in_day, close, exit_sig, entry_sig,
            owned_list, purchease_candidates, symbols_to_buy, owned_shares,
            available_money, trades, account_value, net_account_value>>

\* ----------------------------------------------------------------- helpers
EmptyMap == [x \in {} |-> 0]

Range(s) == {s[i] : i \in DOMAIN s}

RECURSIVE Filter(_, _)
Filter(s, keep) ==
    IF s = <<>> THEN <<>>
    ELSE IF Head(s) \in keep THEN <<Head(s)>> \o Filter(Tail(s), keep)
    ELSE Filter(Tail(s), keep)

\* dict.update: the entries of u added to, or replacing, those of d
Update(d, u) ==
    [k \in (DOMAIN d) \cup (DOMAIN u) |-> IF k \in DOMAIN u THEN u[k] ELSE d[k]]

\* _owned_shares is a dict symbol -> {cnt, trx_id}; it is kept as the sequence
\* of its entries in insertion order.
Keys(owned) == [i \in DOMAIN owned |-> owned[i].symbol]

Held(owned) == {owned[i].symbol : i \in DOMAIN owned}

Holding(owned, symbol) ==
    owned[CHOOSE i \in DOMAIN owned : owned[i].symbol = symbol]

DictSet(owned, h) ==
    IF h.symbol \in Held(owned)
    THEN [i \in DOMAIN owned |-> IF owned[i].symbol = h.symbol THEN h ELSE owned[i]]
    ELSE Append(owned, h)

RECURSIVE DictPop(_, _)
DictPop(owned, symbol) ==
    IF owned = <<>> THEN <<>>
    ELSE IF Head(owned).symbol = symbol THEN Tail(owned)
    ELSE <<Head(owned)>> \o DictPop(Tail(owned), symbol)

\* The signals mapping does not change between two calls of run: a cell that
\* was read keeps its value for the calls that follow.  Reads(cells, key, v):
\* v can be the value of the cell; Remember keeps it while more calls follow.
Reads(cells, key, v) == key \in DOMAIN cells => cells[key] = v

Remember(cells, key, v) ==
    IF calls_left > 0 THEN Update(cells, key :> v) ELSE cells

\* --------------------------------------------------------------- fee model
\* round(fee, 2): n is the fee in 1/10000 grosz, the result is in grosz; a tie
\* goes to the even neighbour
Round2(n) ==
    LET q == n \div 10000
        r == n % 10000
    IN  IF r < 5000 THEN q
        ELSE IF r > 5000 THEN q + 1
        ELSE IF q % 2 = 0 THEN q ELSE q + 1

\* Backtester.calculate_fee; transaction_value and the result in grosz
calculate_fee(transaction_value) ==
    LET fee == transaction_value * fee_perc_e4
    IN  IF fee < min_fee * 100 * 10000 THEN min_fee * 100 ELSE Round2(fee)

\* available_money_at_time // (price + (price*self.fee_perc)), money in grosz
\* and price in whole units: floor(money / (100*price*1.0038))
shares_count_for(money, price) == (money * 100) \div (price * (10000 + fee_perc_e4))

\* ------------------------------------------------------------------ sizing
RECURSIVE buying_decisions(_, _)
buying_decisions(available_money_at_time, candidates) ==
    IF candidates = <<>> THEN <<>>
    ELSE
      LET candidate == Head(candidates)
          price == candidate.price
          shares_count == shares_count_for(available_money_at_time, price)
          trx_value == shares_count * price * 100
          expected_fee == calculate_fee(trx_value)
      IN  IF shares_count = 0
          THEN buying_decisions(available_money_at_time, Tail(candidates))
          ELSE <<[symbol |-> candidate.symbol,
                  entry_type |-> candidate.entry_type,
                  shares_count |-> shares_count,
                  price |-> price,
                  trx_value |-> trx_value,
                  fee |-> expected_fee]>>
               \o buying_decisions(available_money_at_time - (trx_value + expected_fee),
                                   Tail(candidates))

\* ------------------------------------------------------- position_size.py
\* Python compares strings by code point: the code points of the symbols used
CodePoints ==
    [A |-> <<65>>, B |-> <<66>>,
     c1 |-> <<99, 49>>, c10 |-> <<99, 49, 48>>, c2 |-> <<99, 50>>]

\* a < b for two sequences of integers, as Python orders strings and numbers
RECURSIVE LexLess(_, _)
LexLess(a, b) ==
    IF b = <<>> THEN FALSE
    ELSE IF a = <<>> THEN TRUE
    ELSE IF Head(a) # Head(b) THEN Head(a) < Head(b)
    ELSE LexLess(Tail(a), Tail(b))

\* PositionSize.sort: the key= of the sort_type
SortKey(sort_type, candidate) ==
    IF sort_type = "alphabetically" THEN CodePoints[candidate.symbol]
    ELSE <<candidate.price>>

\* a slip in sort: reverse=True forgotten for 'expensive'
SortsBeforeAscending(sort_type, x, y) ==
    LexLess(SortKey(sort_type, x), SortKey(sort_type, y))

\* x sorts strictly before y (reverse=True for 'expensive')
SortsBefore(sort_type, x, y) ==
    IF sort_type = "expensive"
    THEN LexLess(SortKey(sort_type, y), SortKey(sort_type, x))
    ELSE LexLess(SortKey(sort_type, x), SortKey(sort_type, y))

\* list.sort is stable: x goes behind every element it does not sort before
RECURSIVE InsertSorted(_, _, _)
InsertSorted(sort_type, sorted, x) ==
    IF sorted = <<>> THEN <<x>>
    ELSE IF SortsBefore(sort_type, x, Head(sorted)) THEN <<x>> \o sorted
    ELSE <<Head(sorted)>> \o InsertSorted(sort_type, Tail(sorted), x)

RECURSIVE StableSort(_, _)
StableSort(sort_type, candidates) ==
    IF candidates = <<>> THEN <<>>
    ELSE InsertSorted(sort_type,
                      StableSort(sort_type, SubSeq(candidates, 1, Len(candidates) - 1)),
                      candidates[Len(candidates)])

\* PositionSize.sort; shuffle is the permutation random.shuffle produces; any
\* other sort_type leaves the copy in the given order
sort(sort_type, shuffle, candidates) ==
    IF sort_type \in {"alphabetically", "cheapest", "expensive"}
    THEN StableSort(sort_type, candidates)
    ELSE IF sort_type = "random"
    THEN [i \in DOMAIN candidates |-> candidates[shuffle[i]]]
    ELSE candidates

\* PositionSize.get_shares_count, money in grosz and price in whole units
get_shares_count(money, price) == (money * 100) \div (price * (10000 + fee_perc_e4))

\* PositionSize.calculate_fee; transaction_value and the result in grosz
PositionSize_calculate_fee(transaction_value) ==
    LET fee == transaction_value * fee_perc_e4
    IN  IF fee < min_fee * 100 * 10000 THEN min_fee * 100 ELSE Round2(fee)

\* PositionSize._define_symbol_to_buy
define_symbol_to_buy(candidate, shares_count, trx_value, expected_fee) ==
    [symbol |-> candidate.symbol,
     entry_type |-> candidate.entry_type,
     shares_count |-> shares_count,
     price |-> candidate.price,
     trx_value |-> trx_value,
     fee |-> expected_fee]

\* a slip in the sizers: the percentage taken as a number of tenths
RoundPercOfTenths(capital, perc) == (capital * perc) \div 10

\* round(capital*perc, 2): capital in grosz, perc in percent, result in grosz;
\* a tie goes to the even neighbour
RoundPerc(capital, perc) ==
    LET n == capital * perc
        q == n \div 100
        r == n % 100
    IN  IF r < 50 THEN q
        ELSE IF r > 50 THEN q + 1
        ELSE IF q % 2 = 0 THEN q ELSE q + 1

\* a slip in the sizers: the test for zero shares is missing
CannotAffordNever(shares_count) == FALSE

\* 'if shares_count == 0:' of the three sizers, the branch that logs
\* _cannot_afford_msg and continues
cannot_afford(shares_count) == shares_count = 0

\* MaxFirstEncountered.decide_what_to_buy, the loop over the sorted candidates
RECURSIVE MaxFirstEncounteredLoop(_, _)
MaxFirstEncounteredLoop(available_money_at_time, candidates) ==
    IF candidates = <<>> THEN <<>>
    ELSE
      LET candidate == Head(candidates)
          price == candidate.price
          shares_count == get_shares_count(available_money_at_time, price)
          trx_value == shares_count * price * 100
          expected_fee == PositionSize_calculate_fee(trx_value)
      IN  IF cannot_afford(shares_count)
          THEN MaxFirstEncounteredLoop(available_money_at_time, Tail(candidates))
          ELSE <<define_symbol_to_buy(candidate, shares_count, trx_value, expected_fee)>>

\* FixedCapitalPerc.decide_what_to_buy, the loop over the sorted candidates
RECURSIVE FixedCapitalPercLoop(_, _, _)
FixedCapitalPercLoop(available_money_at_time, single_buy_limit, candidates) ==
    IF candidates = <<>> THEN <<>>
    ELSE
      LET candidate == Head(candidates)
          price == candidate.price
          shares_count ==
              IF available_money_at_time < single_buy_limit
              THEN get_shares_count(available_money_at_time, price)
              ELSE get_shares_count(single_buy_limit, price)
          trx_value == shares_count * price * 100
          expected_fee == PositionSize_calculate_fee(trx_value)
      IN  IF cannot_afford(shares_count)
          THEN FixedCapitalPercLoop(available_money_at_time, single_buy_limit,
                                    Tail(candidates))
          ELSE <<define_symbol_to_buy(candidate, shares_count, trx_value, expected_fee)>>
               \o FixedCapitalPercLoop(available_money_at_time - (trx_value + expected_fee),
                                       single_buy_limit, Tail(candidates))

\* PercentageRisk.decide_what_to_buy, the loop over the sorted candidates.  A
\* candidate's stop_loss is absent, NaN or a number of whole units (stop_kind);
\* 'not candidate.get(...)' is true for an absent and for a zero stop_loss.
\* The result is the exception raised, if any, and else the fills.
RECURSIVE PercentageRiskLoop(_, _, _)
PercentageRiskLoop(available_money_at_time, risk_per_transaction, candidates) ==
    IF candidates = <<>> THEN [raised |-> "none", fills |-> <<>>]
    ELSE
      LET candidate == Head(candidates)
          price == candidate.price
          value_at_risk_per_share ==
              IF price > candidate.stop_loss THEN price - candidate.stop_loss
              ELSE candidate.stop_loss - price
          theoretical_shares_count ==
              risk_per_transaction \div (value_at_risk_per_share * 100)
          theoretical_trx_value == theoretical_shares_count * price * 100
          shares_count ==
              IF available_money_at_time < theoretical_trx_value
              THEN get_shares_count(available_money_at_time, price)
              ELSE get_shares_count(theoretical_trx_value, price)
          real_trx_value == shares_count * price * 100
          expected_fee == PositionSize_calculate_fee(real_trx_value)
          spent == IF cannot_afford(shares_count) THEN 0 ELSE real_trx_value + expected_fee
          rest == PercentageRiskLoop(available_money_at_time - spent,
                                     risk_per_transaction, Tail(candidates))
      IN  IF candidate.stop_kind = "absent"
             \/ (candidate.stop_kind = "number" /\ candidate.stop_loss = 0)
          THEN [raised |-> "ValueError", fills |-> <<>>]
          ELSE IF candidate.stop_kind = "nan"
          THEN [raised |-> "ValueError", fills |-> <<>>]
          ELSE IF value_at_risk_per_share = 0
          THEN [raised |-> "ZeroDivisionError", fills |-> <<>>]
          ELSE IF rest.raised # "none" THEN rest
          ELSE IF cannot_afford(shares_count) THEN rest
          ELSE [raised |-> "none",
                fills |-> <<define_symbol_to_buy(candidate, shares_count,
                                                 real_trx_value, expected_fee)>>
                          \o rest.fills]

\* decide_what_to_buy of the three sizers for a call c: what is raised, and
\* the list returned
MaxFirstEncountered_decide_what_to_buy(c) ==
    [raised |-> "none",
     fills |-> MaxFirstEncounteredLoop(c.available_money_at_time,
                                       sort(c.sort_type, c.shuffle, c.candidates))]

FixedCapitalPerc_decide_what_to_buy(c) ==
    [raised |-> "none",
     fills |-> FixedCapitalPercLoop(c.available_money_at_time,
                                    RoundPerc(c.capital, c.perc),
                                    sort(c.sort_type, c.shuffle, c.candidates))]

PercentageRisk_decide_what_to_buy(c) ==
    PercentageRiskLoop(c.available_money_at_time,
                       RoundPerc(c.capital, c.perc),
                       sort(c.sort_type, c.shuffle, c.candidates))

\* --------------------------------------------------- transaction arithmetic
\* a slip in _sell: the fee added on a long exit as well
SellGrossFeeAdded(exit_type, trx_value, fee) == trx_value + fee

\* _sell, lines 174-177: value of the closing transaction after the fee
SellGross(exit_type, trx_value, fee) ==
    IF exit_type = "long" THEN trx_value - fee ELSE trx_value + fee

\* a slip in _buy: the fee subtracted on a long entry as well
BuyGrossFeeSubtracted(entry_type, trx_value, fee) == trx_value - fee

\* _buy, lines 195-196 and 200-201: value of the opening transaction after the fee
BuyGross(entry_type, trx_value, fee) ==
    IF entry_type = "long" THEN trx_value + fee ELSE trx_value - fee

\* a slip in _buy: the share count of a short entry stored unsigned
BuyCntUnsigned(entry_type, shares_count) == shares_count

\* _buy, lines 197 and 202: signed share count of the new holding
BuyCnt(entry_type, shares_count) ==
    IF entry_type = "long" THEN shares_count ELSE 0 - shares_count

\* _buy, lines 198 and 203: cash after the opening transaction
MoneyAfterBuy(money, entry_type, trx_value_gross) ==
    IF entry_type = "long" THEN money - trx_value_gross ELSE money + trx_value_gross

\* a slip in _sell: the proceeds of the exit never reach the cash balance
MoneyAfterSellNotCredited(money, trx_value_gross) == money

\* _sell, line 179: cash after the closing transaction
MoneyAfterSell(money, trx_value_gross) == money + trx_value_gross

\* a slip in _buy: the day left out of the trade id
TrxIdWithoutDay(day, symbol, entry_type) == <<0, symbol, entry_type>>

\* _buy, line 193: '_'.join((str(ds)[:10], symbol, entry_type)); the days of
\* the day list are dates, which differ in their first 10 characters
TrxId(day, symbol, entry_type) == <<day, symbol, entry_type>>

\* run, lines 123-128: which branch of the exit check is taken
ExitBranch(exit_long, exit_short) ==
    IF exit_long = 1 THEN "long"
    ELSE IF exit_short = 1 THEN "short"
    ELSE "none"

\* a slip in run: the short entry flag tested before the long one
EntryBranchShortFirst(entry_long, entry_short) ==
    IF entry_short = 1 THEN "short"
    ELSE IF entry_long = 1 THEN "long"
    ELSE "none"

\* run, lines 132-135: which branch of the entry check is taken
EntryBranch(entry_long, entry_short) ==
    IF entry_long = 1 THEN "long"
    ELSE IF entry_short = 1 THEN "short"
    ELSE "none"

\* _define_candidate
define_candidate(symbol, entry_type, prices) ==
    [symbol |-> symbol, entry_type |-> entry_type, price |-> prices[symbol]]

\* run, lines 130-135
RECURSIVE CollectCandidates(_, _, _)
CollectCandidates(syms, sig, prices) ==
    IF syms = <<>> THEN <<>>
    ELSE
      LET sym == Head(syms)
          branch == EntryBranch(sig[sym].entry_long, sig[sym].entry_short)
          rest == CollectCandidates(Tail(syms), sig, prices)
      IN  IF branch = "none" THEN rest
          ELSE <<define_candidate(sym, branch, prices)>> \o rest

\* a slip in _summarize_day: '=' instead of '+=' keeps the last holding only
AccountValueLastOnly(owned, prices) ==
    IF owned = <<>> THEN 0
    ELSE owned[Len(owned)].cnt * prices[owned[Len(owned)].symbol] * 100

\* _summarize_day, lines 230-232
RECURSIVE AccountValue(_, _)
AccountValue(owned, prices) ==
    IF owned = <<>> THEN 0
    ELSE Head(owned).cnt * prices[Head(owned).symbol] * 100
         + AccountValue(Tail(owned), prices)

\* a slip in _summarize_day: the cash left out of the NAV
NavWithoutCash(_account_value, money) == _account_value

\* _summarize_day, line 233
Nav(_account_value, money) == _account_value + money

\* ------------------------------------------------------------------- state
\* the state of an engine on which run was not called
NotRunning ==
    /\ ds = 0
    /\ symbols_in_day = <<>>
    /\ close = EmptyMap
    /\ exit_sig = EmptyMap
    /\ entry_sig = EmptyMap
    /\ owned_list = <<>>
    /\ purchease_candidates = <<>>
    /\ symbols_to_buy = <<>>
    /\ owned_shares = <<>>
    /\ available_money = 0
    /\ trades = EmptyMap
    /\ account_value = <<>>
    /\ net_account_value = <<>>

\* the engine after __init__; the caller has fixed the signals mapping (of which
\* the day loop needs the key order and the number of dates), init_capital,
\* the test_days it will pass and the number of times it will call run
Constructed(capitals, orders, day_counts, day_caps, calls) ==
    /\ init_capital \in {c * 100 : c \in capitals}
    /\ signal_keys \in orders
    /\ n_days \in day_counts
    /\ test_days \in day_caps
    /\ calls_left = calls
    /\ signals = [close |-> EmptyMap, exit |-> EmptyMap, entry |-> EmptyMap]
    /\ first_result = <<>>
    /\ sizer_call = <<>>
    /\ sizer_result = <<>>
    /\ pc = "idle"
    /\ NotRunning

\* one call of run(), test_days omitted
Init == Constructed(InitCapitals, SignalOrders, 0..MaxDays, {<<>>}, 1)

\* a slip in _reset_backtest_state: the holdings of the previous run are kept
ResetKeepsHoldings(capital) ==
    [owned_shares |-> owned_shares,
     available_money |-> capital,
     trades |-> EmptyMap,
     account_value |-> <<>>,
     net_account_value |-> <<>>]

\* _reset_backtest_state
reset_backtest_state(capital) ==
    [owned_shares |-> <<>>,
     available_money |-> capital,
     trades |-> EmptyMap,
     account_value |-> <<>>,
     net_account_value |-> <<>>]

\* run, lines 113-116: length of the day list, days[:test_days] taken only if
\* test_days is truthy
DayListLen(N, cap) ==
    IF cap = <<>> THEN N
    ELSE IF cap[1] = 0 THEN N
    ELSE IF cap[1] < N THEN cap[1] ELSE N

\* what a call of run hands to its caller: the two series and the ledger of
\* line 148, or the exception; the holdings and the cash stay in the engine
Result(how) ==
    [how |-> how,
     account_value |-> account_value,
     net_account_value |-> net_account_value,
     trades |-> trades,
     owned_shares |-> owned_shares,
     available_money |-> available_money]

\* run, line 104 (_reset_backtest_state) up to the head of the day loop; the
\* locals of an earlier call are gone
Run ==
    /\ pc \in {"idle", "done", "error"}
    /\ calls_left > 0
    /\ calls_left' = calls_left - 1
    /\ LET state == reset_backtest_state(init_capital)
       IN  /\ owned_shares' = state.owned_shares
           /\ available_money' = state.available_money
           /\ trades' = state.trades
           /\ account_value' = state.account_value
           /\ net_account_value' = state.net_account_value
    /\ ds' = 0
    /\ symbols_in_day' = <<>>
    /\ close' = EmptyMap
    /\ exit_sig' = EmptyMap
    /\ entry_sig' = EmptyMap
    /\ owned_list' = <<>>
    /\ purchease_candidates' = <<>>
    /\ symbols_to_buy' = <<>>
    /\ pc' = "loop"
    /\ UNCHANGED <<inputs, sizing, signals, first_result>>

\* run, lines 118-121: the loop takes the next day of the day list; the day's
\* records are those of a non-empty set of symbols (a day of the list is a
\* date of at least one symbol)
NextDay ==
    /\ pc = "loop"
    /\ ds < DayListLen(n_days, test_days)
    /\ ds' = ds + 1
    /\ \E present \in (SUBSET Symbols) \ {{}} :
       \E prices \in [present -> Prices] :
         /\ Reads(signals.close, ds + 1, prices)
         /\ symbols_in_day' = Filter(signal_keys, present)
         /\ close' = prices
         /\ signals' = [signals EXCEPT !.close = Remember(@, ds + 1, prices)]
    /\ owned_list' = Keys(owned_shares)
    /\ exit_sig' = EmptyMap
    /\ entry_sig' = EmptyMap
    /\ purchease_candidates' = <<>>
    /\ symbols_to_buy' = <<>>
    /\ pc' = "exit"
    /\ UNCHANGED <<inputs, sizing, caller, portfolio, snapshots>>

\* _sell(symbol, exit_type, prices, ds)
Sell(symbol, exit_type) ==
    LET price == close[symbol] * 100
        shares_count == Holding(owned_shares, symbol).cnt
        fee == calculate_fee(shares_count * price)
        trx_value == shares_count * price
        trx_value_gross == SellGross(exit_type, trx_value, fee)
        trx_id == Holding(owned_shares, symbol).trx_id
    IN  /\ available_money' = MoneyAfterSell(available_money, trx_value_gross)
        /\ trades' = [trades EXCEPT ![trx_id] =
                         Update(@, [sell_ds |-> ds,
                                    sell_value_no_fee |-> trx_value,
                                    sell_value_gross |-> trx_value_gross])]
        /\ owned_shares' = DictPop(owned_shares, symbol)

\* run, lines 122-128: one iteration of the exit pass
ExitCheck ==
    /\ pc = "exit"
    /\ owned_list # <<>>
    /\ Head(owned_list) \in DOMAIN close
    /\ LET symbol == Head(owned_list) IN
       \E exit_long \in Flags, exit_short \in Flags :
         LET flags == [exit_long |-> exit_long, exit_short |-> exit_short]
             branch == ExitBranch(exit_long, exit_short)
         IN  /\ Reads(signals.exit, <<ds, symbol>>, flags)
             /\ exit_sig' = Update(exit_sig, symbol :> flags)
             /\ signals' = [signals EXCEPT !.exit = Remember(@, <<ds, symbol>>, flags)]
             /\ IF branch = "none"
                THEN UNCHANGED portfolio
                ELSE Sell(symbol, branch)
    /\ owned_list' = Tail(owned_list)
    /\ UNCHANGED <<inputs, sizing, caller, today, pc, entry_sig, purchease_candidates,
                   symbols_to_buy, snapshots>>

\* run, line 123 when the held symbol has no record on ds: the lookup raises
\* KeyError and run is left with the state reached so far
ExitKeyError ==
    /\ pc = "exit"
    /\ owned_list # <<>>
    /\ Head(owned_list) \notin DOMAIN close
    /\ pc' = "error"
    /\ first_result' = IF calls_left > 0 THEN <<Result("KeyError")>> ELSE first_result
    /\ UNCHANGED <<inputs, sizing, calls_left, signals, today, exit_sig, entry_sig, owned_list,
                   purchease_candidates, symbols_to_buy, portfolio, snapshots>>

\* run, lines 130-135: candidate collection
Collect ==
    /\ pc = "exit"
    /\ owned_list = <<>>
    /\ \E sig \in [Range(symbols_in_day) -> [entry_long : Flags, entry_short : Flags]] :
         /\ Reads(signals.entry, ds, sig)
         /\ entry_sig' = sig
         /\ purchease_candidates' = CollectCandidates(symbols_in_day, sig, close)
         /\ signals' = [signals EXCEPT !.entry = Remember(@, ds, sig)]
    /\ pc' = "size"
    /\ UNCHANGED <<inputs, sizing, caller, today, exit_sig, owned_list, symbols_to_buy,
                   portfolio, snapshots>>

\* run, line 139: symbols_to_buy = self.buying_decisions(purchease_candidates)
Size ==
    /\ pc = "size"
    /\ symbols_to_buy' = buying_decisions(available_money, purchease_candidates)
    /\ exit_sig' = EmptyMap
    /\ entry_sig' = EmptyMap
    /\ purchease_candidates' = <<>>
    /\ pc' = "buy"
    /\ UNCHANGED <<inputs, sizing, caller, signals, today, owned_list, portfolio, snapshots>>

\* run, lines 141-142: _buy(trx_details, ds) for the next fill
Buy ==
    /\ pc = "buy"
    /\ symbols_to_buy # <<>>
    /\ LET trx == Head(symbols_to_buy)
           trx_id == TrxId(ds, trx.symbol, trx.entry_type)
           trx_value_gross == BuyGross(trx.entry_type, trx.trx_value, trx.fee)
       IN  /\ owned_shares' = DictSet(owned_shares,
                  [symbol |-> trx.symbol,
                   cnt |-> BuyCnt(trx.entry_type, trx.shares_count),
                   trx_id |-> trx_id])
           /\ available_money' = MoneyAfterBuy(available_money, trx.entry_type,
                                               trx_value_gross)
           /\ trades' = Update(trades,
                  trx_id :> [buy_ds |-> ds,
                             type |-> trx.entry_type,
                             trx_value_no_fee |-> trx.trx_value,
                             trx_value_gross |-> trx_value_gross])
    /\ symbols_to_buy' = Tail(symbols_to_buy)
    /\ UNCHANGED <<inputs, sizing, caller, signals, today, pc, exit_sig, entry_sig, owned_list,
                   purchease_candidates, snapshots>>

\* run, line 144: _summarize_day(ds)
SummarizeDay ==
    /\ pc = "buy"
    /\ symbols_to_buy = <<>>
    /\ LET _account_value == AccountValue(owned_shares, close)
           nav == Nav(_account_value, available_money)
       IN  /\ account_value' = Append(account_value, _account_value)
           /\ net_account_value' = Append(net_account_value, nav)
    /\ pc' = "loop"
    /\ UNCHANGED <<inputs, sizing, caller, signals, today, exit_sig, entry_sig, owned_list,
                   purchease_candidates, symbols_to_buy, portfolio>>

\* run, line 148: the day list is exhausted and run returns
Finish ==
    /\ pc = "loop"
    /\ ds = DayListLen(n_days, test_days)
    /\ pc' = "done"
    /\ first_result' = IF calls_left > 0 THEN <<Result("returned")>> ELSE first_result
    /\ UNCHANGED <<inputs, sizing, calls_left, signals, today, exit_sig, entry_sig, owned_list,
                   purchease_candidates, symbols_to_buy, portfolio, snapshots>>

Next ==
    \/ Run
    \/ NextDay
    \/ ExitCheck
    \/ ExitKeyError
    \/ Collect
    \/ Size
    \/ Buy
    \/ SummarizeDay
    \/ Finish

Spec == Init /\ [][Next]_vars

\* ------------------------------------ signals mappings in any key order
\* every order in which the signals mapping can list the symbols
AnySignalOrders == {<<"A", "B">>, <<"B", "A">>}

InitOrders == Constructed(CallerCapitals, AnySignalOrders, 0..MaxDays, {<<>>}, 1)

SpecOrders == InitOrders /\ [][Next]_vars

\* --------------------------------------------------------- run() called twice
\* numbers of dates of the signals mapping on which run is called twice
RerunDayCounts == {0, 1, 2}

InitRerun == Constructed(CallerCapitals, SignalOrders, RerunDayCounts, {<<>>}, 2)

SpecRerun == InitRerun /\ [][Next]_vars

\* ------------------------------------------- decide_what_to_buy on its own
Sizers == {"buying_decisions", "MaxFirstEncountered", "FixedCapitalPerc", "PercentageRisk"}

\* candidate lists of at most MaxCands candidates, of different symbols
CandidateLists(stops) ==
    LET Candidates == {[symbol |-> sym, entry_type |-> t, price |-> p,
                        stop_kind |-> sl.stop_kind, stop_loss |-> sl.stop_loss] :
                          sym \in SizerSymbols, t \in {"long", "short"},
                          p \in SizerPrices, sl \in stops}
    IN  {l \in UNION {[1..n -> Candidates] : n \in 0..MaxCands} :
           \A i, j \in DOMAIN l : l[i].symbol = l[j].symbol => i = j}

\* what random.shuffle can do to a list of n elements
Shuffles(n) == {f \in [1..n -> 1..n] : \A i, j \in 1..n : f[i] = f[j] => i = j}

\* a sizer is constructed and a caller is about to call its decide_what_to_buy;
\* buying_decisions has no sort_type, and only PercentageRisk looks at stop
\* losses, only FixedCapitalPerc and PercentageRisk at capital and percentage
InitSizer ==
    /\ init_capital = 0
    /\ signal_keys = <<>>
    /\ n_days = 0
    /\ test_days = <<>>
    /\ calls_left = 0
    /\ signals = [close |-> EmptyMap, exit |-> EmptyMap, entry |-> EmptyMap]
    /\ first_result = <<>>
    /\ NotRunning
    /\ pc = "sizer"
    /\ sizer_result = <<>>
    /\ \E sizer \in Sizers :
       \E sort_type \in (IF sizer = "buying_decisions" THEN {"unsorted"} ELSE SortTypes) :
       \E candidates \in CandidateLists(IF sizer = "PercentageRisk"
                                         THEN StopLosses ELSE NoStopLoss) :
       \E shuffle \in (IF sort_type = "random" THEN Shuffles(Len(candidates))
                                                ELSE {<<>>}) :
       \E money \in SizerMoney :
       \E capital \in (IF sizer \in {"FixedCapitalPerc", "PercentageRisk"}
                        THEN SizerCapitals ELSE {0}) :
       \E perc \in (IF sizer = "FixedCapitalPerc" THEN CapitalPercs
                     ELSE IF sizer = "PercentageRisk" THEN RiskPercs ELSE {0}) :
         sizer_call = [sizer |-> sizer,
                       sort_type |-> sort_type,
                       shuffle |-> shuffle,
                       available_money_at_time |-> money,
                       candidates |-> candidates,
                       capital |-> capital,
                       perc |-> perc]

\* Backtester.buying_decisions(candidates) with the engine's cash
CallBuyingDecisions ==
    /\ pc = "sizer"
    /\ sizer_call.sizer = "buying_decisions"
    /\ sizer_result' =
          [raised |-> "none",
           fills |-> buying_decisions(sizer_call.available_money_at_time,
                                      sizer_call.candidates)]
    /\ pc' = "sized"
    /\ UNCHANGED <<engine, sizer_call>>

CallMaxFirstEncountered ==
    /\ pc = "sizer"
    /\ sizer_call.sizer = "MaxFirstEncountered"
    /\ sizer_result' = MaxFirstEncountered_decide_what_to_buy(sizer_call)
    /\ pc' = "sized"
    /\ UNCHANGED <<engine, sizer_call>>

CallFixedCapitalPerc ==
    /\ pc = "sizer"
    /\ sizer_call.sizer = "FixedCapitalPerc"
    /\ sizer_result' = FixedCapitalPerc_decide_what_to_buy(sizer_call)
    /\ pc' = "sized"
    /\ UNCHANGED <<engine, sizer_call>>

CallPercentageRisk ==
    /\ pc = "sizer"
    /\ sizer_call.sizer = "PercentageRisk"
    /\ sizer_result' = PercentageRisk_decide_what_to_buy(sizer_call)
    /\ pc' = "sized"
    /\ UNCHANGED <<engine, sizer_call>>

NextSizer ==
    \/ CallBuyingDecisions
    \/ CallMaxFirstEncountered
    \/ CallFixedCapitalPerc
    \/ CallPercentageRisk

SpecSizer == InitSizer /\ [][NextSizer]_vars

\* ---------------------------------------------------- run(test_days = n)
\* what the caller passes as test_days: nothing, or an integer n >= 0
TestDaysArgs == {<<>>} \cup {<<n>> : n \in 0..(MaxDays + 1)}

InitDays == Constructed(CallerCapitals, SignalOrders, 0..MaxDays, TestDaysArgs, 1)

SpecDays == InitDays /\ [][Next]_vars

\* ------------------------------------------------- vocabulary of the claims
RECURSIVE SetSum(_, _)
SetSum(S, f) ==
    IF S = {} THEN 0
    ELSE LET x == CHOOSE y \in S : TRUE
         IN  f[x] + SetSum(S \ {x}, f)

Abs(x) == IF x < 0 THEN 0 - x ELSE x

\* the exit pass is about to check the held symbol s, which has a record on ds
ExitStepOn(s) ==
    /\ pc = "exit"
    /\ owned_list # <<>>
    /\ Head(owned_list) = s
    /\ s \in DOMAIN close

\* the next step executes a fill
BuyStep == pc = "buy" /\ symbols_to_buy # <<>>

\* a day has just been summarized
DayClosed == pc \in {"loop", "done"} /\ ds >= 1

ClosedTrades == {id \in DOMAIN trades : "sell_ds" \in DOMAIN trades[id]}

OpenTrades == (DOMAIN trades) \ ClosedTrades

SoldToday == {id \in ClosedTrades : trades[id].sell_ds = ds}

BoughtToday == {id \in DOMAIN trades : trades[id].buy_ds = ds}

\* cash at the end of the previous day, from the snapshots
PrevCash ==
    IF ds <= 1 THEN init_capital
    ELSE net_account_value[ds - 1] - account_value[ds - 1]

\* ------------------------------------------------------------------ claims

\* C1: covering a short position (the exit check takes the short branch on a
\* holding of -n shares, n > 0) at price p debits cash by exactly
\* n*p + fee(n*p) and removes the holding.
C1_ShortCoverDebitsValuePlusFee ==
    [][\A s \in Symbols :
         (/\ ExitStepOn(s)
          /\ Holding(owned_shares, s).cnt < 0
          /\ ExitBranch(exit_sig'[s].exit_long, exit_sig'[s].exit_short) = "short")
         => LET n == 0 - Holding(owned_shares, s).cnt
                p == close[s] * 100
            IN  /\ available_money' = available_money - (n * p + calculate_fee(n * p))
                /\ s \notin Held(owned_shares')]_vars

\* C2: the exit pass closes a holding only on the exit flag of its own type:
\* a long holding leaves the holdings only when exit_long is 1, a short one
\* only when exit_short is 1, and a holding whose own flag is 0 leaves
\* holdings, cash and ledger unchanged whatever the other flag.
C2_ExitOnlyByOwnFlag ==
    [][\A s \in Symbols :
         ExitStepOn(s)
         => LET type == trades[Holding(owned_shares, s).trx_id].type
                own == IF type = "long" THEN exit_sig'[s].exit_long
                       ELSE exit_sig'[s].exit_short
            IN  /\ (s \notin Held(owned_shares')) => own = 1
                /\ (own = 0) => UNCHANGED portfolio]_vars

\* C3: the cash balance is never negative after a Buy: every fill that debits
\* cash (a long entry) costs, fee included, at most the cash available
\* immediately before it.
C3_EveryFillAffordable ==
    (BuyStep /\ Head(symbols_to_buy).entry_type = "long") =>
        Head(symbols_to_buy).trx_value + Head(symbols_to_buy).fee <= available_money

\* C4: at the end of every simulated day the recorded NAV is the recorded
\* account value plus the cash balance.
C4_NavIsAccountValuePlusCash ==
    DayClosed =>
        /\ Len(net_account_value) = ds
        /\ net_account_value[ds] = account_value[ds] + available_money

C4_Witness ==
    /\ DayClosed
    /\ SoldToday # {}
    /\ BoughtToday # {}
    /\ account_value[ds] # 0

\* C5: at the end of every simulated day the recorded account value is the sum
\* over the holdings then present of signed share count times the symbol's
\* price of the day, and 0 when nothing is held.
C5_AccountValueIsMarkToMarket ==
    DayClosed =>
        /\ Len(account_value) = ds
        /\ account_value[ds] =
              SetSum(Held(owned_shares),
                     [s \in Held(owned_shares) |->
                         Holding(owned_shares, s).cnt * close[s] * 100])
        /\ (owned_shares = <<>>) => account_value[ds] = 0

C5_Witness ==
    /\ DayClosed
    /\ Cardinality(Held(owned_shares)) = 2
    /\ \E i, j \in DOMAIN owned_shares : owned_shares[i].cnt > 0 /\ owned_shares[j].cnt < 0

\* C6: executing a long fill of n shares at price p with fee f debits cash by
\* exactly n*p + f, creates the symbol's holding with share count +n and
\* trade id <date, symbol, long>, and opens a ledger entry with
\* trx_value_no_fee = n*p and trx_value_gross = n*p + f.
C6_LongFill ==
    [][(BuyStep /\ Head(symbols_to_buy).entry_type = "long")
       => LET fill == Head(symbols_to_buy)
              n == fill.shares_count
              p == fill.price * 100
              f == fill.fee
              id == <<ds, fill.symbol, "long">>
          IN  /\ available_money' = available_money - (n * p + f)
              /\ fill.symbol \in Held(owned_shares')
              /\ Holding(owned_shares', fill.symbol).cnt = n
              /\ Holding(owned_shares', fill.symbol).trx_id = id
              /\ id \in DOMAIN trades'
              /\ trades'[id] = [buy_ds |-> ds, type |-> "long",
                                trx_value_no_fee |-> n * p,
                                trx_value_gross |-> n * p + f]]_vars

C6_Witness ==
    /\ pc = "buy"
    /\ \E i \in DOMAIN owned_shares :
         /\ owned_shares[i].trx_id = <<ds, owned_shares[i].symbol, "long">>
         /\ owned_shares[i].cnt > 0
         /\ trades[owned_shares[i].trx_id].trx_value_gross = init_capital - available_money

\* C7: executing a short fill of n shares at price p with fee f credits cash
\* by exactly n*p - f, creates the symbol's holding with share count -n and
\* trade id <date, symbol, short>, and opens a ledger entry with
\* trx_value_no_fee = n*p and trx_value_gross = n*p - f.
C7_ShortFill ==
    [][(BuyStep /\ Head(symbols_to_buy).entry_type = "short")
       => LET fill == Head(symbols_to_buy)
              n == fill.shares_count
              p == fill.price * 100
              f == fill.fee
              id == <<ds, fill.symbol, "short">>
          IN  /\ available_money' = available_money + (n * p - f)
              /\ fill.symbol \in Held(owned_shares')
              /\ Holding(owned_shares', fill.symbol).cnt = 0 - n
              /\ Holding(owned_shares', fill.symbol).trx_id = id
              /\ id \in DOMAIN trades'
              /\ trades'[id] = [buy_ds |-> ds, type |-> "short",
                                trx_value_no_fee |-> n * p,
                                trx_value_gross |-> n * p - f]]_vars

C7_Witness ==
    /\ pc = "buy"
    /\ \E i \in DOMAIN owned_shares :
         /\ owned_shares[i].trx_id = <<ds, owned_shares[i].symbol, "short">>
         /\ owned_shares[i].cnt < 0
         /\ trades[owned_shares[i].trx_id].trx_value_gross = available_money - init_capital

\* C8: selling a long holding of n shares (the exit check takes the long
\* branch on a holding of n > 0 shares) at price p credits cash by exactly
\* n*p - fee(n*p) and removes the symbol from the holdings, so that a
\* portfolio with no other position is flat afterwards.
C8_LongExit ==
    [][\A s \in Symbols :
         (/\ ExitStepOn(s)
          /\ Holding(owned_shares, s).cnt > 0
          /\ ExitBranch(exit_sig'[s].exit_long, exit_sig'[s].exit_short) = "long")
         => LET n == Holding(owned_shares, s).cnt
                p == close[s] * 100
            IN  /\ available_money' = available_money + (n * p - calculate_fee(n * p))
                /\ s \notin Held(owned_shares')
                /\ Held(owned_shares') = Held(owned_shares) \ {s}
                /\ (Held(owned_shares) = {s}) => owned_shares' = <<>>]_vars

C8_Witness ==
    /\ pc = "exit"
    /\ owned_shares = <<>>
    /\ \E id \in SoldToday :
         /\ trades[id].type = "long"
         /\ trades[id].sell_value_no_fee > 0
         /\ exit_sig[id[2]].exit_long = 1
         /\ available_money > PrevCash

\* C9: closing a position merges the sell-side fields into the ledger entry
\* the holding refers to and leaves its buy-side fields unchanged: sell_ds is
\* the exit day, sell_value_no_fee is signed share count times price, and
\* sell_value_gross is value - fee for a long exit and -(|value| + fee) for a
\* short exit.
C9_SellSideFields ==
    [][\A s \in Symbols :
         (/\ ExitStepOn(s)
          /\ ExitBranch(exit_sig'[s].exit_long, exit_sig'[s].exit_short) # "none"
          /\ (Holding(owned_shares, s).cnt > 0) <=>
                (ExitBranch(exit_sig'[s].exit_long, exit_sig'[s].exit_short) = "long"))
         => LET id == Holding(owned_shares, s).trx_id
                value == Holding(owned_shares, s).cnt * close[s] * 100
                fee == calculate_fee(Abs(value))
            IN  /\ DOMAIN trades' = DOMAIN trades
                /\ \A k \in DOMAIN trades[id] : trades'[id][k] = trades[id][k]
                /\ trades'[id].sell_ds = ds
                /\ trades'[id].sell_value_no_fee = value
                /\ trades'[id].sell_value_gross =
                      IF value > 0 THEN value - fee ELSE 0 - (Abs(value) + fee)]_vars

\* C10: within a day the exit pass is complete before sizing, and the fills
\* of the day are those the sizing step computes from the cash of the previous
\* day's end plus the proceeds of every Sell of the day.
C10_SizingSeesExitProceeds ==
    [][(pc = "size")
       => /\ owned_list = <<>>
          /\ symbols_to_buy' =
                buying_decisions(
                    PrevCash + SetSum(SoldToday,
                                      [id \in SoldToday |-> trades[id].sell_value_gross]),
                    purchease_candidates)]_vars

C10_Witness ==
    /\ pc = "buy"
    /\ SoldToday # {}
    /\ PrevCash >= 0
    /\ \E id \in BoughtToday :
         /\ trades[id].type = "long"
         /\ trades[id].trx_value_no_fee > PrevCash

\* C11: candidate collection yields at most one candidate per symbol that has
\* a record on the day: a long candidate if its entry_long flag is 1 (also when
\* both flags are 1), else a short candidate if its entry_short flag is 1,
\* else none; the candidate carries the day's price, and whether the symbol is
\* held plays no part.
CandidatesOf(s) ==
    {i \in DOMAIN purchease_candidates : purchease_candidates[i].symbol = s}

C11_OneCandidatePerSymbol ==
    (pc = "size")
    => \A s \in Symbols :
         IF s \notin DOMAIN close THEN CandidatesOf(s) = {}
         ELSE LET expected ==
                      IF entry_sig[s].entry_long = 1 THEN {"long"}
                      ELSE IF entry_sig[s].entry_short = 1 THEN {"short"}
                      ELSE {}
              IN  /\ Cardinality(CandidatesOf(s)) = Cardinality(expected)
                  /\ \A i \in CandidatesOf(s) :
                        /\ purchease_candidates[i].entry_type \in expected
                        /\ purchease_candidates[i].price = close[s]

C11_Witness ==
    /\ pc = "size"
    /\ \E s \in Held(owned_shares) \cap DOMAIN close :
         /\ entry_sig[s].entry_long = 1
         /\ entry_sig[s].entry_short = 1
         /\ \E i \in CandidatesOf(s) : purchease_candidates[i].entry_type = "long"
    /\ \E s \in DOMAIN close : CandidatesOf(s) = {}

\* C12: when the symbols' date sets differ, run simulates every date of the
\* union and records one snapshot row for each, also on a date on which a held
\* symbol has no record: run never stops inside a day, and when it returns
\* (test_days omitted) both snapshot series have one row per date.
C12_OneRowPerDate ==
    /\ pc # "error"
    /\ (pc = "done" /\ test_days = <<>>)
       => /\ Len(account_value) = n_days
          /\ Len(net_account_value) = n_days

\* C13: for every integer n >= 0 given as test_days a run that returns has
\* simulated the first min(n, N) days of the day list, N being the number of
\* distinct days, and both snapshot series have that many rows; with test_days
\* omitted all N days are simulated.
DaysAsked ==
    IF test_days = <<>> THEN n_days
    ELSE IF test_days[1] < n_days THEN test_days[1] ELSE n_days

C13_SimulatesMinOfCapAndDays ==
    (pc = "done")
    => /\ ds = DaysAsked
       /\ Len(account_value) = DaysAsked
       /\ Len(net_account_value) = DaysAsked

\* C14: a second call of run on the same engine, the signals unchanged, ends as
\* the first call ended, whatever the first call left behind: the same
\* valuation series and ledger are returned (or the same exception raised),
\* and the same holdings and cash are left.
C14_SecondRunRepeatsFirst ==
    (calls_left = 0 /\ first_result # <<>> /\ pc \in {"done", "error"})
    => first_result[1] = Result(IF pc = "done" THEN "returned" ELSE "KeyError")

C14_Witness ==
    /\ calls_left = 0
    /\ first_result # <<>>
    /\ pc = "done"
    /\ first_result[1].owned_shares # <<>>
    /\ \E id \in DOMAIN trades : "sell_ds" \in DOMAIN trades[id]
    /\ first_result[1].trades = trades

\* ------------------------------------------------ vocabulary, sizer calls
Returned == pc = "sized" /\ sizer_result.raised = "none"

Sorted == sort(sizer_call.sort_type, sizer_call.shuffle, sizer_call.candidates)

\* floor(money / (price + price*fee_perc)) written without a division: n is
\* that number for money (grosz) and price (whole units)
IsSharesFor(n, money, price) ==
    /\ n * price * (10000 + fee_perc_e4) <= money * 100
    /\ money * 100 < (n + 1) * price * (10000 + fee_perc_e4)

\* the fills the sizer of the call computes for an already sorted list
FillsFor(sorted) ==
    LET c == sizer_call IN
    IF c.sizer = "buying_decisions"
    THEN buying_decisions(c.available_money_at_time, sorted)
    ELSE IF c.sizer = "MaxFirstEncountered"
    THEN MaxFirstEncounteredLoop(c.available_money_at_time, sorted)
    ELSE IF c.sizer = "FixedCapitalPerc"
    THEN FixedCapitalPercLoop(c.available_money_at_time, RoundPerc(c.capital, c.perc), sorted)
    ELSE PercentageRiskLoop(c.available_money_at_time, RoundPerc(c.capital, c.perc),
                            sorted).fills

Without(s, k) == [i \in 1..(Len(s) - 1) |-> IF i < k THEN s[i] ELSE s[i + 1]]

FilledSymbols == {sizer_result.fills[i].symbol : i \in DOMAIN sizer_result.fills}

\* C15: no sizer returns a fill of 0 shares: a candidate for which the
\* affordability formula gives 0 is skipped, and a skipped candidate does not
\* reduce the money of those behind it: the fills are those of the list
\* without it.
C15_NoZeroShareFill ==
    Returned
    => /\ \A i \in DOMAIN sizer_result.fills : sizer_result.fills[i].shares_count # 0
       /\ \A k \in DOMAIN Sorted :
            Sorted[k].symbol \notin FilledSymbols
            => FillsFor(Without(Sorted, k)) = sizer_result.fills

C15_Witness ==
    /\ Returned
    /\ sizer_call.sizer = "FixedCapitalPerc"
    /\ Len(Sorted) = 2
    /\ sizer_call.available_money_at_time > 0
    /\ FilledSymbols = {Sorted[2].symbol}
    /\ get_shares_count(sizer_call.available_money_at_time, Sorted[1].price) > 0

\* C16: every fee computed during a run, on entries and on exits, long and
\* short, is at least min_fee, and is fee_perc times the absolute transaction
\* value, rounded to 2 decimals, whenever that exceeds min_fee.
FeeAsClaimed(trx_value, fee) ==
    /\ fee >= min_fee * 100
    /\ Abs(trx_value) * fee_perc_e4 > min_fee * 100 * 10000
       => fee = Round2(Abs(trx_value) * fee_perc_e4)

C16_FeeIsProportionalAboveMinimum ==
    [][/\ BuyStep => FeeAsClaimed(Head(symbols_to_buy).trx_value,
                                  Head(symbols_to_buy).fee)
       /\ \A s \in Symbols :
            (ExitStepOn(s) /\ s \notin Held(owned_shares'))
            => LET id == Holding(owned_shares, s).trx_id
                   value == trades'[id].sell_value_no_fee
               IN  FeeAsClaimed(value, Abs(trades'[id].sell_value_gross - value))]_vars

\* C17: MaxFirstEncountered.decide_what_to_buy returns the empty list when no
\* candidate is affordable, and otherwise exactly one fill: for the first
\* candidate in sort order whose floor(cash / (price + price*fee_perc)) is
\* above 0, with that share count, computed from the entire cash.
Affordable(money, candidates) ==
    {i \in DOMAIN candidates : get_shares_count(money, candidates[i].price) > 0}

C17_FirstAffordableOnly ==
    (Returned /\ sizer_call.sizer = "MaxFirstEncountered")
    => LET money == sizer_call.available_money_at_time
           affordable == Affordable(money, Sorted)
           fills == sizer_result.fills
       IN  IF affordable = {} THEN fills = <<>>
           ELSE LET first == CHOOSE i \in affordable : \A j \in affordable : i <= j
                IN  /\ Len(fills) = 1
                    /\ fills[1].symbol = Sorted[first].symbol
                    /\ fills[1].entry_type = Sorted[first].entry_type
                    /\ fills[1].price = Sorted[first].price
                    /\ IsSharesFor(fills[1].shares_count, money, fills[1].price)

\* C18: the built-in sizing step funds the first affordable candidate only:
\* it returns at most one fill, so that at most one position is opened on a
\* trading day.
C18_AtMostOneFillPerDay ==
    /\ Len(symbols_to_buy) <= 1
    /\ DayClosed => Cardinality(BoughtToday) <= 1

\* C19: the candidates of a day are funded in ascending symbol order: the
\* fills of the day are those computed for the candidates sorted by symbol,
\* whatever the order of the symbols in the signals mapping.
C19_FundedInSymbolOrder ==
    [][(pc = "size")
       => symbols_to_buy' =
             buying_decisions(available_money,
                              sort("alphabetically", <<>>, purchease_candidates))]_vars

\* C20: FixedCapitalPerc.decide_what_to_buy goes through the candidates in
\* sort order; for each, shares = floor(min(remaining_cash,
\* capital*capital_perc) / (price + price*fee_perc)); if shares > 0 a fill with
\* trx_value = shares*price and fee = fee(trx_value) is emitted and
\* remaining_cash reduced by trx_value + fee, otherwise the candidate is
\* skipped.  Stated for calls that start with cash >= 0.
RECURSIVE FixedCapitalPercAsClaimed(_, _, _)
FixedCapitalPercAsClaimed(remaining_cash, limit, candidates) ==
    IF candidates = <<>> THEN <<>>
    ELSE
      LET candidate == Head(candidates)
          budget == IF remaining_cash < limit THEN remaining_cash ELSE limit
          shares == (budget * 100) \div (candidate.price * (10000 + fee_perc_e4))
          trx_value == shares * candidate.price * 100
          fee == PositionSize_calculate_fee(trx_value)
      IN  IF shares > 0
          THEN <<[symbol |-> candidate.symbol,
                  entry_type |-> candidate.entry_type,
                  shares_count |-> shares,
                  price |-> candidate.price,
                  trx_value |-> trx_value,
                  fee |-> fee]>>
               \o FixedCapitalPercAsClaimed(remaining_cash - (trx_value + fee), limit,
                                            Tail(candidates))
          ELSE FixedCapitalPercAsClaimed(remaining_cash, limit, Tail(candidates))

C20_FixedCapitalPercFills ==
    (/\ Returned
     /\ sizer_call.sizer = "FixedCapitalPerc"
     /\ sizer_call.available_money_at_time >= 0)
    => sizer_result.fills =
          FixedCapitalPercAsClaimed(sizer_call.available_money_at_time,
                                    RoundPerc(sizer_call.capital, sizer_call.perc),
                                    Sorted)

\* C21: PercentageRisk.decide_what_to_buy raises the input error, and returns
\* no fill, exactly when the stop_loss of some candidate is absent or NaN;
\* when every candidate carries a number as stop_loss nothing is raised.
SomeStopLossMissing ==
    \E i \in DOMAIN sizer_call.candidates :
        sizer_call.candidates[i].stop_kind \in {"absent", "nan"}

C21_RaisesExactlyOnMissingStopLoss ==
    (pc = "sized" /\ sizer_call.sizer = "PercentageRisk")
    => /\ sizer_result.raised = "ValueError" <=> SomeStopLossMissing
       /\ ~SomeStopLossMissing => sizer_result.raised = "none"
       /\ sizer_result.raised # "none" => sizer_result.fills = <<>>

\* C22: PositionSize.sort returns a permutation of the candidate list, in
\* ascending order of the symbol strings for 'alphabetically' (so that 'c10'
\* comes before 'c2'), of non-decreasing price for 'cheapest' and of
\* non-increasing price for 'expensive'; the list of the caller is unchanged.
\* (The candidates of a call have different symbols, so a permutation is a
\* list of the same length with the same elements.)
InSortOrder(sort_type, s) ==
    \A i, j \in DOMAIN s :
        i < j =>
          IF sort_type = "alphabetically"
          THEN LexLess(CodePoints[s[i].symbol], CodePoints[s[j].symbol])
          ELSE IF sort_type = "cheapest" THEN s[i].price <= s[j].price
          ELSE IF sort_type = "expensive" THEN s[i].price >= s[j].price
          ELSE TRUE

C22_SortIsOrderedPermutation ==
    [][(pc = "sizer" /\ sizer_call.sizer # "buying_decisions")
       => /\ Len(Sorted) = Len(sizer_call.candidates)
          /\ Range(Sorted) = Range(sizer_call.candidates)
          /\ InSortOrder(sizer_call.sort_type, Sorted)
          /\ sizer_call' = sizer_call]_vars

C22_Witness ==
    /\ pc = "sized"
    /\ sizer_call.sort_type = "alphabetically"
    /\ Len(Sorted) = 2
    /\ Sorted[1].symbol = "c10"
    /\ Sorted[2].symbol = "c2"
    /\ sizer_call.candidates[1].symbol = "c2"

\* C23: within a run the ledger only grows: a trade id once recorded is never
\* removed and its buy-side fields never change, and no Buy uses a trade id
\* that is already in the ledger.
BuySideFields == {"buy_ds", "type", "trx_value_no_fee", "trx_value_gross"}

C23_LedgerOnlyGrows ==
    [][(pc \notin {"idle", "done", "error"})
       => /\ \A id \in DOMAIN trades :
               /\ id \in DOMAIN trades'
               /\ \A f \in BuySideFields : trades'[id][f] = trades[id][f]
          /\ BuyStep => TrxId(ds, Head(symbols_to_buy).symbol,
                              Head(symbols_to_buy).entry_type) \notin DOMAIN trades]_vars

C23_Witness ==
    /\ pc = "loop"
    /\ \E a \in ClosedTrades, b \in OpenTrades :
         /\ a[2] = b[2]
         /\ a[3] = b[3]
         /\ trades[a].sell_ds = trades[b].buy_ds

\* C24: in every state of a run the share count of each holding is not zero
\* and has the sign of the type of the trade the holding references: above 0
\* for a long trade, below 0 for a short one.
C24_HoldingSignMatchesTradeType ==
    \A i \in DOMAIN owned_shares :
        LET h == owned_shares[i] IN
        /\ h.cnt # 0
        /\ h.trx_id \in DOMAIN trades
        /\ trades[h.trx_id].type = "long" => h.cnt > 0
        /\ trades[h.trx_id].type = "short" => h.cnt < 0

\* C25: every fill a sizer returns has shares_count >= 1 and trx_value > 0,
\* whatever the candidates and the cash, also after earlier fills of the call
\* have reduced the remaining money.  Stated for calls that start with
\* cash >= 0.
C25_FillsArePositive ==
    (Returned /\ sizer_call.available_money_at_time >= 0)
    => \A i \in DOMAIN sizer_result.fills :
         /\ sizer_result.fills[i].shares_count >= 1
         /\ sizer_result.fills[i].trx_value > 0

\* C26: at the end of every simulated day the open trades of the ledger are
\* exactly the trades the holdings reference, also when an entry signal fired
\* for a symbol that was held.
ReferencedTrades == {owned_shares[i].trx_id : i \in DOMAIN owned_shares}

C26_OpenTradesAreHeld ==
    DayClosed => OpenTrades = ReferencedTrades

\* C27: every executed transaction changes the NAV, valued at the day's
\* prices, by exactly minus the fee charged on it.  Stated for the entries of
\* symbols that are not held and for the exits taken by the flag of the
\* holding's own type.
NavNow(owned, money) == AccountValue(owned, close) + money

Priced(owned) == Held(owned) \subseteq DOMAIN close

C27_TransactionCostsItsFee ==
    [][/\ (/\ BuyStep
           /\ Head(symbols_to_buy).symbol \notin Held(owned_shares)
           /\ Priced(owned_shares))
          => NavNow(owned_shares', available_money')
                = NavNow(owned_shares, available_money) - Head(symbols_to_buy).fee
       /\ \A s \in Symbols :
            (/\ ExitStepOn(s)
             /\ s \notin Held(owned_shares')
             /\ Priced(owned_shares)
             /\ (Holding(owned_shares, s).cnt > 0) <=> (exit_sig'[s].exit_long = 1))
            => LET id == Holding(owned_shares, s).trx_id
                   fee == Abs(trades'[id].sell_value_gross - trades'[id].sell_value_no_fee)
               IN  NavNow(owned_shares', available_money')
                      = NavNow(owned_shares, available_money) - fee]_vars

\* C28: for every fill PercentageRisk.decide_what_to_buy returns, the amount
\* at risk shares_count * |price - stop_loss| is at most the risk budget
\* capital * perc_risk, and shares_count is at most the affordable count
\* floor(remaining_cash / (price + price*fee_perc)), remaining_cash being the
\* cash less the cost of the fills before it.
StopLossOf(symbol) ==
    LET i == CHOOSE j \in DOMAIN sizer_call.candidates :
                 sizer_call.candidates[j].symbol = symbol
    IN  sizer_call.candidates[i].stop_loss

\* cash less trx_value + fee of the first n fills
RECURSIVE RemainingCash(_)
RemainingCash(n) ==
    IF n = 0 THEN sizer_call.available_money_at_time
    ELSE RemainingCash(n - 1)
         - (sizer_result.fills[n].trx_value + sizer_result.fills[n].fee)

C28_RiskAndCashBound ==
    (Returned /\ sizer_call.sizer = "PercentageRisk")
    => \A i \in DOMAIN sizer_result.fills :
         LET fill == sizer_result.fills[i]
             at_risk == fill.shares_count * Abs(fill.price - StopLossOf(fill.symbol)) * 100
         IN  /\ at_risk * 100 <= sizer_call.capital * sizer_call.perc
             /\ fill.shares_count * fill.price * (10000 + fee_perc_e4)
                   <= RemainingCash(i - 1) * 100

C28_Witness ==
    /\ Returned
    /\ sizer_call.sizer = "PercentageRisk"
    /\ Len(sizer_result.fills) = 2
    /\ \A i \in {1, 2} : sizer_result.fills[i].shares_count > 0
    /\ IsSharesFor(sizer_result.fills[2].shares_count, RemainingCash(1),
                   sizer_result.fills[2].price)
    /\ ~IsSharesFor(sizer_result.fills[1].shares_count, RemainingCash(0),
                    sizer_result.fills[1].price)

====
